---- MODULE Spec2Model ----
(***************************************************************************)
(* The release-asset resolution and client-platform-matching pipeline of   *)
(* the Mira website: the downloads page (src/app/downloads/page.tsx), the   *)
(* DownloadCards client component (download-cards) and the roadmap plan of *)
(* the about page (src/app/about/page.tsx).                                 *)
(*                                                                         *)
(* Strings the code inspects (asset names, navigator signals, markdown     *)
(* lines, tags) are sequences of one-character strings, so that            *)
(* toLowerCase, includes, endsWith and the regular expressions are         *)
(* computed character by character.  Strings the code only compares for    *)
(* equality or passes through are TLA+ strings.                             *)
(***************************************************************************)
EXTENDS Integers, Sequences, FiniteSets, TLC

VARIABLES
    \* downloads page: one request
    searchParams,   \* the includePrereleases query value of the request
    upstream,       \* what the releases feed answers to fetchReleases' request
    pagePc,         \* "request" before DownloadsPage ran, "responded" after
    page,           \* what DownloadsPage produced
    \* DownloadCards: one component instance in one browser
    nav,            \* the browser: build mode, ?os= override, navigator signals
    slots,          \* the slots array of the props, as it is now
    given,          \* the slots array as the parent handed it over
    os,             \* the useState cell
    canceled,       \* the effect closure's flag
    phase,          \* "rendered" (first render done), "mounted" (effect ran), "unmounted"
    detection,      \* "idle", "pending" (detectOS called), "resolved" (then-callback ran)
    resolvedValue,  \* what detectOS resolved to, "none" before
    mountedAtResolve, \* whether the component was mounted when the callback ran
    started,        \* calls of detectOS so far
    writes,         \* calls of setOs so far
    cards,          \* the rendered cards, in displayed order
    \* about page: one request
    roadmapUpstream,  \* what the two addresses of ROADMAP.md answer
    releasesUpstream, \* what the three addresses of the latest release answer
    aboutPc,        \* "request" before AboutPage ran, "responded" after
    plan            \* what fetchUpcomingReleasePlan returned

pageVars == <<searchParams, upstream, pagePc, page>>

cardVars == <<nav, slots, given, os, canceled, phase, detection, resolvedValue,
              mountedAtResolve, started, writes, cards>>

aboutVars == <<roadmapUpstream, releasesUpstream, aboutPc, plan>>

vars == <<pageVars, cardVars, aboutVars>>

\* ------------------------------------------------------------------ bounds

MaxAssets == 2      \* assets attached to one release
MaxSize == 2        \* byte sizes range over 1..MaxSize
MaxReleases == 3    \* releases in one feed answer
MaxCardAssets == 2  \* assets of a release whose slots reach DownloadCards
MaxLines == 4       \* lines of ROADMAP.md

\* ------------------------------------------------------- values and strings

Null == [null |-> TRUE]

Range(s) == {s[i] : i \in 1..Len(s)}

UpperChars == <<"A","B","C","D","E","F","G","H","I","J","K","L","M",
                "N","O","P","Q","R","S","T","U","V","W","X","Y","Z">>
LowerChars == <<"a","b","c","d","e","f","g","h","i","j","k","l","m",
                "n","o","p","q","r","s","t","u","v","w","x","y","z">>
DigitChars == <<"0","1","2","3","4","5","6","7","8","9">>

\* String.prototype.toLowerCase on the ASCII range
RECURSIVE lowerPrefix(_, _)
lowerPrefix(s, n) ==
    IF n = 0 THEN <<>>
    ELSE Append(lowerPrefix(s, n - 1),
                IF \E k \in 1..Len(UpperChars) : UpperChars[k] = s[n]
                THEN LowerChars[CHOOSE k \in 1..Len(UpperChars) : UpperChars[k] = s[n]]
                ELSE s[n])

toLowerCase(s) == lowerPrefix(s, Len(s))

\* (a string argument is bound once, \E str \in {s}, before it is scanned)
\* s.includes(t)
includes(s, t) ==
    \E str \in {s} :
        \E i \in 0..(Len(str) - Len(t)) : SubSeq(str, i + 1, i + Len(t)) = t

\* s.endsWith(t)
endsWith(s, t) ==
    \E str \in {s} :
        /\ Len(t) <= Len(str)
        /\ SubSeq(str, Len(str) - Len(t) + 1, Len(str)) = t

\* \w of a regular expression: [A-Za-z0-9_]
isWordChar(c) ==
    \/ c \in Range(UpperChars)
    \/ c \in Range(LowerChars)
    \/ c \in Range(DigitChars)
    \/ c = "_"

\* /\b<t>\b/.test(s), for a token t that starts and ends with a word character
hasWholeWord(s, t) ==
    \E str \in {s} :
        \E i \in 0..(Len(str) - Len(t)) :
            /\ SubSeq(str, i + 1, i + Len(t)) = t
            /\ (i = 0 \/ ~isWordChar(str[i]))
            /\ (i + Len(t) = Len(str) \/ ~isWordChar(str[i + Len(t) + 1]))

\* Array.prototype.filter
RECURSIVE filterPrefix(_, _, _)
filterPrefix(arr, n, keep) ==
    IF n = 0 THEN <<>>
    ELSE IF arr[n] \in keep
         THEN Append(filterPrefix(arr, n - 1, keep), arr[n])
         ELSE filterPrefix(arr, n - 1, keep)

ArrayFilter(arr, keep) == filterPrefix(arr, Len(arr), keep)

\* Array.prototype.sort(compareFn): a stable sort (ECMAScript 2019).  cmp is the
\* comparator tabulated over pairs of elements; an element is inserted before the
\* first one it compares strictly below, so equal elements keep their order.
insertSorted(sorted, e, cmp) ==
    LET before == {i \in 1..Len(sorted) : cmp[<<e, sorted[i]>>] < 0}
        k == IF before = {} THEN Len(sorted) + 1
             ELSE CHOOSE i \in before : \A j \in before : i <= j
    IN  SubSeq(sorted, 1, k - 1) \o <<e>> \o SubSeq(sorted, k, Len(sorted))

RECURSIVE sortPrefix(_, _, _)
sortPrefix(arr, n, cmp) ==
    IF n = 0 THEN <<>>
    ELSE CHOOSE r \in { insertSorted(sorted, arr[n], cmp) :
                          sorted \in {sortPrefix(arr, n - 1, cmp)} } : TRUE

ArraySort(arr, cmp) == sortPrefix(arr, Len(arr), cmp)

\* ------------------------------------------------------- string literals

S_exe == <<".","e","x","e">>
S_msi == <<".","m","s","i">>
S_dmg == <<".","d","m","g">>
S_pkg == <<".","p","k","g">>
S_zip == <<".","z","i","p">>
S_targz == <<".","t","a","r",".","g","z">>
S_win == <<"w","i","n">>
S_mac == <<"m","a","c">>
S_arm64 == <<"a","r","m","6","4">>
S_aarch64 == <<"a","a","r","c","h","6","4">>
S_apple_silicon_dash == <<"a","p","p","l","e","-","s","i","l","i","c","o","n">>
S_x64 == <<"x","6","4">>
S_x86_64 == <<"x","8","6","_","6","4">>
S_amd64 == <<"a","m","d","6","4">>
S_intel == <<"i","n","t","e","l">>
S_setup == <<"s","e","t","u","p">>
S_portable == <<"p","o","r","t","a","b","l","e">>

S_windows == <<"w","i","n","d","o","w","s">>
S_arm == <<"a","r","m">>

\* ------------------------------------------------------- asset names drawn

\* "Mira-Setup-x64.exe"
N_SetupX64Exe == <<"M","i","r","a","-","S","e","t","u","p","-","x","6","4",".","e","x","e">>
\* "Mira-arm64.dmg"
N_Arm64Dmg == <<"M","i","r","a","-","a","r","m","6","4",".","d","m","g">>
\* "Mira.dmg"
N_Dmg == <<"M","i","r","a",".","d","m","g">>
\* "Mira-darwin-x64.tar.gz"
N_DarwinX64TarGz == <<"M","i","r","a","-","d","a","r","w","i","n","-","x","6","4",".","t","a","r",".","g","z">>
\* "checksums.txt"
N_ChecksumsTxt == <<"c","h","e","c","k","s","u","m","s",".","t","x","t">>

AssetNames ==
    { N_SetupX64Exe, N_Arm64Dmg, N_Dmg, N_DarwinX64TarGz, N_ChecksumsTxt,
      \* "Mira-x64.msi"
      <<"M","i","r","a","-","x","6","4",".","m","s","i">>,
      \* "Mira-arm64.msi"
      <<"M","i","r","a","-","a","r","m","6","4",".","m","s","i">>,
      \* "Mira-win-setup.msi"
      <<"M","i","r","a","-","w","i","n","-","s","e","t","u","p",".","m","s","i">>,
      \* "Mira.exe"
      <<"M","i","r","a",".","e","x","e">>,
      \* "Mira-Portable-win.zip"
      <<"M","i","r","a","-","P","o","r","t","a","b","l","e","-","w","i","n",".","z","i","p">>,
      \* "Mira-x64.dmg"
      <<"M","i","r","a","-","x","6","4",".","d","m","g">>,
      \* "Mira-intel.pkg"
      <<"M","i","r","a","-","i","n","t","e","l",".","p","k","g">>,
      \* "Mira-mac-portable.zip"
      <<"M","i","r","a","-","m","a","c","-","p","o","r","t","a","b","l","e",".","z","i","p">>,
      \* "mira-portable-arm64.zip"
      <<"m","i","r","a","-","p","o","r","t","a","b","l","e","-","a","r","m","6","4",".","z","i","p">> }

\* the asset lists of a release: at most MaxAssets assets, names distinct.
\* ReleaseAsset: name and byte size (the download URL is carried along untouched)
AssetLists ==
    UNION { { l \in [1..n -> [name : AssetNames, size : 1..MaxSize]] :
                \A i, j \in 1..n : i # j => l[i].name # l[j].name } :
            n \in 0..MaxAssets }

\* ------------------------------------------------- asset classification

isDownloadableAsset(name) ==
    LET lower == toLowerCase(name)
    IN  \E ext \in {S_exe, S_msi, S_dmg, S_pkg, S_zip, S_targz} : endsWith(lower, ext)

isWindowsAsset(name) ==
    LET lower == toLowerCase(name)
    IN  includes(lower, S_win) \/ endsWith(lower, S_exe) \/ endsWith(lower, S_msi)

isMacAsset(name) ==
    LET lower == toLowerCase(name)
    IN  \/ includes(lower, S_mac)
        \/ includes(lower, <<"d","a","r","w","i","n">>)  \* "darwin"
        \/ endsWith(lower, S_dmg)
        \/ endsWith(lower, S_pkg)

getMacAssetArchitecture(name) ==
    LET lower == toLowerCase(name)
    IN  IF \/ hasWholeWord(lower, S_arm64)
           \/ hasWholeWord(lower, S_aarch64)
           \/ includes(lower, S_apple_silicon_dash)
           \* "apple_silicon"
           \/ includes(lower, <<"a","p","p","l","e","_","s","i","l","i","c","o","n">>)
        THEN "arm64"
        ELSE IF \/ hasWholeWord(lower, S_x64)
                \/ hasWholeWord(lower, S_x86_64)
                \/ hasWholeWord(lower, S_amd64)
                \/ hasWholeWord(lower, S_intel)
             THEN "x64"
             ELSE "unknown"

isInstallerAsset(name) ==
    LET lower == toLowerCase(name)
    IN  \/ includes(lower, S_setup)
        \/ endsWith(lower, S_msi)
        \/ endsWith(lower, S_dmg)
        \/ endsWith(lower, S_pkg)

isPortableAsset(name) ==
    LET lower == toLowerCase(name)
    IN  \/ includes(lower, S_portable)
        \/ endsWith(lower, S_zip)
        \/ endsWith(lower, S_targz)
        \/ (endsWith(lower, S_exe) /\ ~includes(lower, S_setup))

\* the classification of every asset name of the model, computed once
assetClass ==
    [ name \in AssetNames |->
        [ downloadable |-> isDownloadableAsset(name),
          windows |-> isWindowsAsset(name),
          mac |-> isMacAsset(name),
          architecture |-> getMacAssetArchitecture(name),
          installer |-> isInstallerAsset(name),
          portable |-> isPortableAsset(name) ] ]

\* ------------------------------------------------------ best-asset choice

\* the reduce of chooseBestAsset over the first n preferred terms: the term at
\* (0-based) index idx adds (preferredTerms.length - idx) * 10 when the name has it
RECURSIVE termScore(_, _, _)
termScore(lower, preferredTerms, n) ==
    IF n = 0 THEN 0
    ELSE termScore(lower, preferredTerms, n - 1)
         + (IF includes(lower, preferredTerms[n])
            THEN (Len(preferredTerms) - (n - 1)) * 10
            ELSE 0)

WindowsInstallerTerms == <<S_setup, S_msi, S_exe>>
WindowsPortableTerms == <<S_portable, S_exe, S_zip>>
MacInstallerTerms == << <<"d","m","g">>, <<"p","k","g">> >>
MacPortableTerms == <<S_portable, S_zip, S_targz>>

\* the score of a name under preferred terms
nameScore(name, preferredTerms) ==
    termScore(toLowerCase(name), preferredTerms, Len(preferredTerms))

\* nameScore of every asset name of the model under every term list of
\* buildDownloadSlots, computed once
nameScores ==
    [ p \in AssetNames \X { WindowsInstallerTerms, WindowsPortableTerms,
                            MacInstallerTerms, MacPortableTerms } |->
        nameScore(p[1], p[2]) ]

\* a comparator that breaks score ties by the smaller size
compareAssets_smallerFirst(a, b, preferredTerms) ==
    LET aScore == nameScores[<<a.name, preferredTerms>>]
        bScore == nameScores[<<b.name, preferredTerms>>]
    IN  IF aScore # bScore THEN bScore - aScore ELSE a.size - b.size

\* the comparator handed to sort by chooseBestAsset
compareAssets(a, b, preferredTerms) ==
    LET aScore == nameScores[<<a.name, preferredTerms>>]
        bScore == nameScores[<<b.name, preferredTerms>>]
    IN  IF aScore # bScore THEN bScore - aScore ELSE b.size - a.size

chooseBestAsset(assets, preferredTerms) ==
    IF Len(assets) = 0 THEN Null
    ELSE LET ranked == ArraySort(assets,
                 [p \in Range(assets) \X Range(assets) |->
                     compareAssets(p[1], p[2], preferredTerms)])
         IN  ranked[1]

\* ------------------------------------------------------------ slot pools

downloadableAssets(release) ==
    ArrayFilter(release.assets, {a \in Range(release.assets) : assetClass[a.name].downloadable})

windowsAssets(release) ==
    LET assets == downloadableAssets(release)
    IN  ArrayFilter(assets, {a \in Range(assets) : assetClass[a.name].windows})

macAssets(release) ==
    LET assets == downloadableAssets(release)
    IN  ArrayFilter(assets, {a \in Range(assets) : assetClass[a.name].mac})

windowsInstallerAssets(release) ==
    ArrayFilter(windowsAssets(release), {a \in Range(windowsAssets(release)) : assetClass[a.name].installer})

windowsPortableAssets(release) ==
    ArrayFilter(windowsAssets(release), {a \in Range(windowsAssets(release)) : assetClass[a.name].portable})

\* the architecture filter left out: every mac asset, whatever its architecture
macArchAssets_anyArch(release, arch) == macAssets(release)

macArchAssets(release, arch) ==
    ArrayFilter(macAssets(release),
                {a \in Range(macAssets(release)) : assetClass[a.name].architecture = arch})

macArm64Assets(release) == macArchAssets(release, "arm64")
macX64Assets(release) == macArchAssets(release, "x64")
macUnknownArchAssets(release) == macArchAssets(release, "unknown")

macArm64InstallerAssets(release) ==
    ArrayFilter(macArm64Assets(release), {a \in Range(macArm64Assets(release)) : assetClass[a.name].installer})
macArm64PortableAssets(release) ==
    ArrayFilter(macArm64Assets(release), {a \in Range(macArm64Assets(release)) : assetClass[a.name].portable})
macX64InstallerAssets(release) ==
    ArrayFilter(macX64Assets(release), {a \in Range(macX64Assets(release)) : assetClass[a.name].installer})
macX64PortableAssets(release) ==
    ArrayFilter(macX64Assets(release), {a \in Range(macX64Assets(release)) : assetClass[a.name].portable})
macUnknownInstallerAssets(release) ==
    ArrayFilter(macUnknownArchAssets(release),
                {a \in Range(macUnknownArchAssets(release)) : assetClass[a.name].installer})
macUnknownPortableAssets(release) ==
    ArrayFilter(macUnknownArchAssets(release),
                {a \in Range(macUnknownArchAssets(release)) : assetClass[a.name].portable})

\* a pool choice that never falls back
poolOrFallback_noFallback(exact, fallback) == exact

\* the pool a mac slot chooses from: the exact architecture's, or the
\* unknown-architecture pool when that one is empty
poolOrFallback(exact, fallback) == IF Len(exact) > 0 THEN exact ELSE fallback

buildDownloadSlots(release) ==
    [ windowsInstaller |->
        [ label |-> "Windows Installer", platform |-> "windows",
          asset |-> chooseBestAsset(windowsInstallerAssets(release), WindowsInstallerTerms) ],
      windowsPortable |->
        [ label |-> "Windows Portable", platform |-> "windows",
          asset |-> chooseBestAsset(windowsPortableAssets(release), WindowsPortableTerms) ],
      macArm64Installer |->
        [ label |-> "macOS (Apple Silicon) Installer", platform |-> "mac-arm64",
          asset |-> chooseBestAsset(
              poolOrFallback(macArm64InstallerAssets(release), macUnknownInstallerAssets(release)),
              MacInstallerTerms) ],
      macArm64Portable |->
        [ label |-> "macOS (Apple Silicon) Portable", platform |-> "mac-arm64",
          asset |-> chooseBestAsset(
              poolOrFallback(macArm64PortableAssets(release), macUnknownPortableAssets(release)),
              MacPortableTerms) ],
      macX64Installer |->
        [ label |-> "macOS (Intel) Installer", platform |-> "mac-x64",
          asset |-> chooseBestAsset(
              poolOrFallback(macX64InstallerAssets(release), macUnknownInstallerAssets(release)),
              MacInstallerTerms) ],
      macX64Portable |->
        [ label |-> "macOS (Intel) Portable", platform |-> "mac-x64",
          asset |-> chooseBestAsset(
              poolOrFallback(macX64PortableAssets(release), macUnknownPortableAssets(release)),
              MacPortableTerms) ] ]

\* --------------------------------------------------------- downloads page

\* parseIncludePrereleases: the query value is absent, one string, or an array
parseIncludePrereleases(value) ==
    IF value.kind = "array"
    THEN "1" \in Range(value.arr) \/ "true" \in Range(value.arr)
    ELSE value.kind = "string" /\ (value.str = "1" \/ value.str = "true")

\* fetchReleases.  The feed answers with a success status and a body, with a
\* non-success status, or the request fails and fetch rejects; nothing in
\* fetchReleases catches the rejection, so the await rethrows it.
fetchReleases(feed) ==
    IF feed.kind = "rejected" THEN [threw |-> TRUE, value |-> <<>>]
    ELSE IF feed.kind # "ok" THEN [threw |-> FALSE, value |-> <<>>]
    ELSE [ threw |-> FALSE,
           value |-> ArrayFilter(feed.data, {r \in Range(feed.data) : ~r.draft}) ]

\* the array literal with the mac architectures exchanged
slotsProp_macSwapped(built) ==
    << built.windowsInstaller, built.windowsPortable,
       built.macX64Installer, built.macX64Portable,
       built.macArm64Installer, built.macArm64Portable >>

\* the six slots, as the array literal DownloadsPage hands to DownloadCards
slotsProp(built) ==
    << built.windowsInstaller, built.windowsPortable,
       built.macArm64Installer, built.macArm64Portable,
       built.macX64Installer, built.macX64Portable >>

\* the decision without the forcing by a feed with no stable release
effectiveIncludePrereleases_userOnly(userIncludePrereleases, hasStableLatest) ==
    userIncludePrereleases

\* const effectiveIncludePrereleases = userIncludePrereleases || !hasStableLatest
effectiveIncludePrereleases(userIncludePrereleases, hasStableLatest) ==
    userIncludePrereleases \/ ~hasStableLatest

\* arr[0] ?? null
firstOrNull(arr) == IF Len(arr) > 0 THEN arr[1] ELSE Null

\* const selectedRelease = effectiveIncludePrereleases ? ... : ...
selectedRelease(effective, allReleases, stableReleases) ==
    IF effective THEN firstOrNull(allReleases) ELSE firstOrNull(stableReleases)

\* what DownloadsPage returns for a request: it has no try/catch, so a throw of
\* fetchReleases is a throw of DownloadsPage
renderDownloadsPage(params, feed) ==
    LET userIncludePrereleases == parseIncludePrereleases(params)
        fetched == fetchReleases(feed)
        allReleases == fetched.value
        stableReleases == ArrayFilter(allReleases, {r \in Range(allReleases) : ~r.prerelease})
        hasStableLatest == Len(stableReleases) > 0
        effective == effectiveIncludePrereleases(userIncludePrereleases, hasStableLatest)
        selected == selectedRelease(effective, allReleases, stableReleases)
        built == IF selected # Null THEN buildDownloadSlots(selected) ELSE Null
    IN  IF fetched.threw
        THEN [ threw |-> TRUE ]
        ELSE [ threw |-> FALSE,
               effectiveIncludePrereleases |-> effective,   \* the toggle's checked
               toggleDisabled |-> ~hasStableLatest,
               selectedRelease |-> selected,
               slots |-> built,
               noReleaseNotice |-> (selected = Null),
               \* <DownloadCards slots={[...]}/> is rendered only with a release
               downloadCards |-> IF selected # Null /\ built # Null
                                 THEN slotsProp(built) ELSE <<>> ]

\* ---- inputs of a request

QueryValues ==
    { [kind |-> "undefined"] }
    \cup { [kind |-> "string", str |-> s] : s \in {"1", "true", "0", "false", ""} }
    \cup { [kind |-> "array", arr |-> a] : a \in {<<"0", "1">>, <<"false", "0">>, <<"true">>} }

\* feed bodies of exactly n releases, most recent first; ids are unique; a release
\* carries no asset or an installer for each family
RECURSIVE FeedsOfLen(_)
FeedsOfLen(n) ==
    IF n = 0 THEN {<<>>}
    ELSE { Append(f, [id |-> n, prerelease |-> p, draft |-> d, assets |-> a]) :
             f \in FeedsOfLen(n - 1), p \in BOOLEAN, d \in BOOLEAN,
             a \in { <<>>, << [name |-> N_SetupX64Exe, size |-> 1],
                              [name |-> N_Dmg, size |-> 1] >> } }

FeedAnswers ==
    { [kind |-> "ok", data |-> f] : f \in UNION { FeedsOfLen(n) : n \in 0..MaxReleases } }
    \cup { [kind |-> "notok", data |-> <<>>], [kind |-> "rejected", data |-> <<>>] }

\* feeds of one published release with every asset list: the slot construction
SingleReleaseAnswers ==
    { [kind |-> "ok",
       data |-> << [id |-> 1, prerelease |-> FALSE, draft |-> FALSE, assets |-> a] >>] :
         a \in AssetLists }

\* ---- the request

DownloadsPage ==
    /\ pagePc = "request"
    /\ page' = renderDownloadsPage(searchParams, upstream)
    /\ pagePc' = "responded"
    /\ UNCHANGED <<searchParams, upstream>>
    /\ UNCHANGED <<cardVars, aboutVars>>

\* ------------------------------------------------------- platform detection

\* an optional string: undefined / null, or a value
None == [has |-> FALSE, v |-> <<>>]
Some(s) == [has |-> TRUE, v |-> s]

\* "Intel"
V_Intel == <<"I","n","t","e","l">>
\* "macOS"
V_MacOS == <<"m","a","c","O","S">>
\* "Win32"
V_Win32 == <<"W","i","n","3","2">>
\* "MacIntel"
V_MacIntel == <<"M","a","c","I","n","t","e","l">>
\* "Linux x86_64"
V_LinuxX86_64 == <<"L","i","n","u","x"," ","x","8","6","_","6","4">>
\* "Mozilla/5.0 (Windows NT 10.0; Win64; x64) Chrome/126.0"
UA_ChromeWindows == <<"M","o","z","i","l","l","a","/","5",".","0"," ","(","W","i","n","d","o","w","s"," ","N","T"," ","1","0",".","0",";"," ","W","i","n","6","4",";"," ","x","6","4",")"," ","C","h","r","o","m","e","/","1","2","6",".","0">>
\* "Mozilla/5.0 (Macintosh; Intel Mac OS X 10_15_7) Chrome/126.0"
UA_ChromeMac == <<"M","o","z","i","l","l","a","/","5",".","0"," ","(","M","a","c","i","n","t","o","s","h",";"," ","I","n","t","e","l"," ","M","a","c"," ","O","S"," ","X"," ","1","0","_","1","5","_","7",")"," ","C","h","r","o","m","e","/","1","2","6",".","0">>
\* "Mozilla/5.0 (Macintosh; Intel Mac OS X 10_15_7) Version/17.4 Safari/605.1.15"
UA_SafariMac == <<"M","o","z","i","l","l","a","/","5",".","0"," ","(","M","a","c","i","n","t","o","s","h",";"," ","I","n","t","e","l"," ","M","a","c"," ","O","S"," ","X"," ","1","0","_","1","5","_","7",")"," ","V","e","r","s","i","o","n","/","1","7",".","4"," ","S","a","f","a","r","i","/","6","0","5",".","1",".","1","5">>
\* "Mozilla/5.0 (X11; Linux x86_64; rv:127.0) Gecko/20100101 Firefox/127.0"
UA_FirefoxLinux == <<"M","o","z","i","l","l","a","/","5",".","0"," ","(","X","1","1",";"," ","L","i","n","u","x"," ","x","8","6","_","6","4",";"," ","r","v",":","1","2","7",".","0",")"," ","G","e","c","k","o","/","2","0","1","0","0","1","0","1"," ","F","i","r","e","f","o","x","/","1","2","7",".","0">>

\* normalizeArchitecture with the x64 match left on whatever the caller passes
normalizeArchitecture_x64Always(value, allowX64) ==
    IF ~value.has \/ value.v = <<>> THEN "null"
    ELSE LET lower == toLowerCase(value.v)
         IN  IF \/ includes(lower, S_arm64)
                \/ includes(lower, S_aarch64)
                \/ lower = S_arm
                \/ includes(lower, S_apple_silicon_dash)
             THEN "arm64"
             ELSE IF \/ includes(lower, S_x64)
                     \/ includes(lower, S_x86_64)
                     \/ includes(lower, S_amd64)
                  THEN "x64"
                  ELSE "null"

\* normalizeArchitecture(value, allowX64): "arm64", "x64" or "null"
normalizeArchitecture(value, allowX64) ==
    IF ~value.has \/ value.v = <<>> THEN "null"
    ELSE LET lower == toLowerCase(value.v)
         IN  IF \/ includes(lower, S_arm64)
                \/ includes(lower, S_aarch64)
                \/ lower = S_arm
                \/ includes(lower, S_apple_silicon_dash)
             THEN "arm64"
             ELSE IF allowX64 /\ (\/ includes(lower, S_x64)
                                  \/ includes(lower, S_x86_64)
                                  \/ includes(lower, S_amd64))
                  THEN "x64"
                  ELSE "null"

\* the development-only ?os= override: the platform it forces, or "none"
forcedOS(n) ==
    IF ~n.development \/ ~n.forced.has THEN "none"
    ELSE LET forced == toLowerCase(n.forced.v)
         IN  IF forced \in {S_windows, S_win} THEN "windows"
             \* "mac-arm64", "arm64", "mac-arm", "macos-arm64"
             ELSE IF forced \in {<<"m","a","c","-","a","r","m","6","4">>, S_arm64,
                                 <<"m","a","c","-","a","r","m">>,
                                 <<"m","a","c","o","s","-","a","r","m","6","4">>}
             THEN "mac-arm64"
             \* "mac-x64", "x64", "intel", "mac-intel", "macos-x64"
             ELSE IF forced \in {<<"m","a","c","-","x","6","4">>, S_x64, S_intel,
                                 <<"m","a","c","-","i","n","t","e","l">>,
                                 <<"m","a","c","o","s","-","x","6","4">>}
                  THEN "mac-x64"
             \* "mac", "macos"
             ELSE IF forced \in {S_mac, <<"m","a","c","o","s">>} THEN "mac"
             ELSE "none"

\* the architecture after the structured capability API: its direct field, else
\* the high-entropy query when that is a function (a rejection, or a value
\* without the field, is swallowed by the try/catch)
structuredArchitecture(n) ==
    LET uaData == n.userAgentData
        direct == IF uaData.present THEN normalizeArchitecture(uaData.architecture, TRUE)
                  ELSE "null"
    IN  IF direct = "null" /\ uaData.present /\ uaData.highEntropy.kind # "absent"
        THEN IF uaData.highEntropy.kind = "resolves"
             THEN normalizeArchitecture(uaData.highEntropy.architecture, TRUE)
             ELSE direct
        ELSE direct

\* mac with the architecture resolved so far; otherwise the given default
macWith(architecture, otherwise) ==
    IF architecture = "arm64" THEN "mac-arm64"
    ELSE IF architecture = "x64" THEN "mac-x64"
    ELSE otherwise

\* detectOS, in a browser (the effect that calls it runs only there)
detectOS(n) ==
    LET uaData == n.userAgentData
        hasPlatform == uaData.present /\ uaData.platform.has
        fromUserAgentData == IF hasPlatform THEN toLowerCase(uaData.platform.v) ELSE <<>>
        architecture == structuredArchitecture(n)
        platform == toLowerCase(n.platform)
        userAgent == toLowerCase(n.userAgent)
        architecture2 == IF architecture # "null" THEN architecture
                         ELSE normalizeArchitecture(Some(userAgent), FALSE)
    IN  IF forcedOS(n) # "none" THEN forcedOS(n)
        ELSE IF hasPlatform /\ includes(fromUserAgentData, S_win) THEN "windows"
        ELSE IF hasPlatform /\ includes(fromUserAgentData, S_mac) THEN macWith(architecture, "mac")
        ELSE IF includes(platform, S_win) THEN "windows"
        ELSE IF includes(platform, S_mac) /\ macWith(architecture, "none") # "none"
             THEN macWith(architecture, "none")
        ELSE IF includes(userAgent, S_windows) THEN "windows"
        \* "mac os"
        ELSE IF includes(userAgent, <<"m","a","c"," ","o","s">>)
        THEN macWith(architecture2, "mac")
        ELSE "other"

\* ---- browsers

NoUserAgentData ==
    [ present |-> FALSE, platform |-> None, architecture |-> None,
      highEntropy |-> [kind |-> "absent", architecture |-> None] ]

UserAgentData(platform, kind, architecture) ==
    [ present |-> TRUE, platform |-> Some(platform), architecture |-> None,
      highEntropy |-> [kind |-> kind, architecture |-> architecture] ]

Browser(development, forced, userAgentData, platform, userAgent) ==
    [ development |-> development, forced |-> forced, userAgentData |-> userAgentData,
      platform |-> platform, userAgent |-> userAgent ]

\* the browsers DownloadCards is mounted in
CardNavigators ==
    { \* Chrome on Windows
      Browser(FALSE, None,
              \* platform "Windows", architecture "x86"
              UserAgentData(<<"W","i","n","d","o","w","s">>, "resolves", Some(<<"x","8","6">>)),
              V_Win32, UA_ChromeWindows),
      \* Chrome on an Apple Silicon Mac
      Browser(FALSE, None, UserAgentData(V_MacOS, "resolves", Some(S_arm)),
              V_MacIntel, UA_ChromeMac),
      \* Chrome on a Mac, the high-entropy query rejected
      Browser(FALSE, None, UserAgentData(V_MacOS, "rejects", None),
              V_MacIntel, UA_ChromeMac),
      \* Safari on a Mac
      Browser(FALSE, None, NoUserAgentData, V_MacIntel, UA_SafariMac),
      \* Firefox on Linux
      Browser(FALSE, None, NoUserAgentData, V_LinuxX86_64, UA_FirefoxLinux),
      \* a development build opened with ?os=Intel
      Browser(TRUE, Some(V_Intel), NoUserAgentData, V_LinuxX86_64, UA_FirefoxLinux),
      \* a production build opened with ?os=Intel
      Browser(FALSE, Some(V_Intel), NoUserAgentData, V_Win32, UA_ChromeWindows) }

\* detectOS in each of these browsers (computed once, looked up at resolution)
detectOSIn == [n \in CardNavigators |-> detectOS(n)]

\* ---- the signals a navigator can give, one by one

\* an architecture string of the structured API: absent, "arm", "x86", "x86_64"
DetectArchitectures == {None, Some(S_arm), Some(<<"x","8","6">>), Some(S_x86_64)}

\* navigator.userAgentData: absent, or a platform (absent, "macOS", "Windows"),
\* an architecture field, and getHighEntropyValues absent, rejecting or resolving
DetectUserAgentData ==
    {NoUserAgentData} \cup
    { [ present |-> TRUE, platform |-> p, architecture |-> a, highEntropy |-> h ] :
        p \in {None, Some(V_MacOS), Some(<<"W","i","n","d","o","w","s">>)},
        a \in DetectArchitectures,
        h \in { [kind |-> k, architecture |-> None] : k \in {"absent", "rejects"} }
               \cup { [kind |-> "resolves", architecture |-> x] :
                        x \in DetectArchitectures } }

DetectUserAgents ==
    { UA_ChromeWindows, UA_ChromeMac, UA_FirefoxLinux,
      \* "Mozilla/5.0 (Macintosh; arm64 Mac OS X 14_5) Mira/1.0"
      <<"M","o","z","i","l","l","a","/","5",".","0"," ","(","M","a","c","i","n","t","o","s","h",";"," ","a","r","m","6","4"," ","M","a","c"," ","O","S"," ","X"," ","1","4","_","5",")"," ","M","i","r","a","/","1",".","0">>,
      \* "Mozilla/5.0 (Macintosh; x86_64 Mac OS X 10_15) Mira/1.0"
      <<"M","o","z","i","l","l","a","/","5",".","0"," ","(","M","a","c","i","n","t","o","s","h",";"," ","x","8","6","_","6","4"," ","M","a","c"," ","O","S"," ","X"," ","1","0","_","1","5",")"," ","M","i","r","a","/","1",".","0">>,
      \* "Mozilla/5.0 (X11; Linux i686) Mira/1.0"
      <<"M","o","z","i","l","l","a","/","5",".","0"," ","(","X","1","1",";"," ","L","i","n","u","x"," ","i","6","8","6",")"," ","M","i","r","a","/","1",".","0">>,
      \* "Mozilla/5.0 (X11; Linux aarch64) Mira/1.0"
      <<"M","o","z","i","l","l","a","/","5",".","0"," ","(","X","1","1",";"," ","L","i","n","u","x"," ","a","a","r","c","h","6","4",")"," ","M","i","r","a","/","1",".","0">> }

\* the browsers detectOS is called in: every combination of the signals, in a
\* production build and in a development build with and without ?os=Intel
DetectNavigators ==
    { Browser(b[1], b[2], uaData, platform, userAgent) :
        b \in {<<FALSE, None>>, <<FALSE, Some(V_Intel)>>, <<TRUE, Some(V_Intel)>>},
        uaData \in DetectUserAgentData,
        platform \in {V_Win32, V_MacIntel, V_LinuxX86_64},
        userAgent \in DetectUserAgents }

\* --------------------------------------------------------- DownloadCards

\* a scoring that puts Apple Silicon first on a mac of unknown architecture
getRelevanceScore_macPrefersArm64(slot, detected) ==
    IF detected = "unknown" \/ detected = "other" THEN 0
    ELSE IF detected = "windows" THEN (IF slot.platform = "windows" THEN 0 ELSE 2)
    ELSE IF detected = "mac-arm64"
         THEN (IF slot.platform = "mac-arm64" THEN 0
               ELSE IF slot.platform = "mac-x64" THEN 1 ELSE 2)
    ELSE IF detected = "mac-x64"
         THEN (IF slot.platform = "mac-x64" THEN 0
               ELSE IF slot.platform = "mac-arm64" THEN 1 ELSE 2)
    ELSE IF detected = "mac"
         THEN (IF slot.platform = "windows" THEN 2
               ELSE IF slot.platform = "mac-x64" THEN 1 ELSE 0)
    ELSE 0

\* a scoring that ranks the other mac architecture no better than windows
getRelevanceScore_otherArchLast(slot, detected) ==
    IF detected = "unknown" \/ detected = "other" THEN 0
    ELSE IF detected = "mac" THEN (IF slot.platform = "windows" THEN 2 ELSE 0)
    ELSE IF slot.platform = detected THEN 0 ELSE 2

getRelevanceScore(slot, detected) ==
    IF detected = "unknown" \/ detected = "other" THEN 0
    ELSE IF detected = "windows" THEN (IF slot.platform = "windows" THEN 0 ELSE 2)
    ELSE IF detected = "mac-arm64"
         THEN (IF slot.platform = "mac-arm64" THEN 0
               ELSE IF slot.platform = "mac-x64" THEN 1 ELSE 2)
    ELSE IF detected = "mac-x64"
         THEN (IF slot.platform = "mac-x64" THEN 0
               ELSE IF slot.platform = "mac-arm64" THEN 1 ELSE 2)
    ELSE IF detected = "mac" THEN (IF slot.platform = "windows" THEN 2 ELSE 0)
    ELSE 0

\* the comparator of the useMemo sort, tabulated over the slots
relevanceOrder(arr, detected) ==
    [ p \in Range(arr) \X Range(arr) |->
        getRelevanceScore(p[1], detected) - getRelevanceScore(p[2], detected) ]

\* slots.sort(...): the sort done on the props array itself
orderedSlots_inPlace(arr, detected) ==
    [ input |-> ArraySort(arr, relevanceOrder(arr, detected)),
      ordered |-> ArraySort(arr, relevanceOrder(arr, detected)) ]

\* [...slots].sort(...): the props array after the call, and the sorted copy
orderedSlots(arr, detected) ==
    [ input |-> arr, ordered |-> ArraySort(arr, relevanceOrder(arr, detected)) ]

\* applicability without the generic-mac case
isApplicable_exactOnly(slot, detected) ==
    \/ detected = "unknown"
    \/ detected = "other"
    \/ slot.platform = detected

isApplicable(slot, detected) ==
    \/ detected = "unknown"
    \/ detected = "other"
    \/ (detected = "mac" /\ (slot.platform = "mac-arm64" \/ slot.platform = "mac-x64"))
    \/ slot.platform = detected

\* the <article> elements of one render, in displayed order
renderCards(ordered, detected) ==
    [ idx \in 1..Len(ordered) |->
        [ slot |-> ordered[idx], isApplicable |-> isApplicable(ordered[idx], detected) ] ]

\* the then-callback without the canceled flag: setOs(detectedOS) whenever it runs
afterDetection_unguarded(isCanceled, current, detectedOS) ==
    [os |-> detectedOS, wrote |-> TRUE]

\* the then-callback with the guard inverted
afterDetection_inverted(isCanceled, current, detectedOS) ==
    IF isCanceled THEN [os |-> detectedOS, wrote |-> TRUE]
    ELSE [os |-> current, wrote |-> FALSE]

\* the then-callback's write: if (!canceled) setOs(detectedOS)
afterDetection(isCanceled, current, detectedOS) ==
    IF ~isCanceled THEN [os |-> detectedOS, wrote |-> TRUE]
    ELSE [os |-> current, wrote |-> FALSE]

\* ---- the slot lists a parent hands over: the page's slots for small releases

CardSlotLists ==
    { slotsProp(buildDownloadSlots(
          [id |-> 1, prerelease |-> FALSE, draft |-> FALSE, assets |-> l])) :
        l \in UNION { { list \in [1..n -> [name : {N_SetupX64Exe, N_Arm64Dmg, N_Dmg,
                                                    N_DarwinX64TarGz},
                                            size : {1}]] :
                          \A i, j \in 1..n : i # j => list[i] # list[j] } :
                      n \in 0..MaxCardAssets } }

\* ---- the component's steps

\* one render with the current props and state: the memoized sort, then the cards
Render(arr, detected) ==
    LET sorted == orderedSlots(arr, detected)
    IN  /\ slots' = sorted.input
        /\ cards' = renderCards(sorted.ordered, detected)

\* useEffect(() => {...}, []): runs once after the first render and calls detectOS
EffectMount ==
    /\ phase = "rendered"
    /\ phase' = "mounted"
    /\ canceled' = FALSE
    /\ detection' = "pending"
    /\ started' = started + 1
    /\ UNCHANGED <<nav, slots, given, os, resolvedValue, mountedAtResolve, writes, cards>>
    /\ UNCHANGED <<pageVars, aboutVars>>

\* detectOS resolves and its then-callback runs; a write re-renders
DetectionResolves ==
    /\ detection = "pending"
    /\ \E detectedOS \in {detectOSIn[nav]} :
       \E after \in {afterDetection(canceled, os, detectedOS)} :
           /\ detection' = "resolved"
           /\ resolvedValue' = detectedOS
           /\ mountedAtResolve' = (phase = "mounted")
           /\ os' = after.os
           /\ writes' = IF after.wrote THEN writes + 1 ELSE writes
           /\ IF after.wrote /\ phase = "mounted"
              THEN Render(slots, after.os)
              ELSE UNCHANGED <<slots, cards>>
    /\ UNCHANGED <<nav, given, canceled, phase, started>>
    /\ UNCHANGED <<pageVars, aboutVars>>

\* the parent re-renders with another slots array; state is kept, the effect
\* (empty dependency list) does not run again
ReceiveProps ==
    /\ phase \in {"rendered", "mounted"}
    /\ \E arr \in CardSlotLists :
         /\ arr # given
         /\ given' = arr
         /\ Render(arr, os)
    /\ UNCHANGED <<nav, os, canceled, phase, detection, resolvedValue,
                   mountedAtResolve, started, writes>>
    /\ UNCHANGED <<pageVars, aboutVars>>

\* the effect's cleanup, at unmount
EffectCleanup ==
    /\ phase = "mounted"
    /\ phase' = "unmounted"
    /\ canceled' = TRUE
    /\ cards' = <<>>
    /\ UNCHANGED <<nav, slots, given, os, detection, resolvedValue, mountedAtResolve,
                   started, writes>>
    /\ UNCHANGED <<pageVars, aboutVars>>

\* detectOS() called on its own: the promise settles with the detected platform
CallDetectOS ==
    /\ detection = "idle"
    /\ \E detectedOS \in {detectOS(nav)} :
           /\ detection' = "resolved"
           /\ resolvedValue' = detectedOS
    /\ UNCHANGED <<nav, slots, given, os, canceled, phase, mountedAtResolve, started,
                   writes, cards>>
    /\ UNCHANGED <<pageVars, aboutVars>>

\* ------------------------------------------------------------- about page

\* the \s of a regular expression and what trim() strips, on the characters drawn
WhiteSpace == {" ", "\t", "\n", "\r"}

\* (a value that is used more than once is bound once, x \in {value}, and the
\* result is the one element of the set of results)

\* String.prototype.trim
trim(s) ==
    CHOOSE trimmed \in
        { LET kept == {i \in 1..Len(str) : str[i] \notin WhiteSpace}
          IN  IF kept = {} THEN <<>>
              ELSE SubSeq(str, CHOOSE i \in kept : \A j \in kept : i <= j,
                               CHOOSE i \in kept : \A j \in kept : j <= i) :
          str \in {s} } : TRUE

\* the last position of the longest run of characters of class that starts at
\* position i (i - 1 when s[i] is not of the class): a greedy <class>+ or <class>*
runEnd(s, i, class) ==
    LET stops == {j \in i..Len(s) : s[j] \notin class}
    IN  IF stops = {} THEN Len(s)
        ELSE (CHOOSE j \in stops : \A k \in stops : j <= k) - 1

\* Number(<decimal digits>)
RECURSIVE numberPrefix(_, _)
numberPrefix(s, n) ==
    IF n = 0 THEN 0
    ELSE numberPrefix(s, n - 1) * 10
         + (CHOOSE k \in 1..Len(DigitChars) : DigitChars[k] = s[n]) - 1

Number(s) == CHOOSE number \in { numberPrefix(str, Len(str)) : str \in {s} } : TRUE

\* String(n) of a non-negative integer
RECURSIVE numberToString(_)
numberToString(n) ==
    IF n < 10 THEN <<DigitChars[n + 1]>>
    ELSE Append(numberToString(n \div 10), DigitChars[(n % 10) + 1])

\* (\d+)\.(\d+)\.(\d+)\b tried at position i of s.  Each \d+ takes its whole run
\* of digits: a shorter one is followed by a digit, which is neither "." nor a
\* word boundary.
semverAt(s, i) ==
    CHOOSE match \in
        { IF /\ e1 >= i
             /\ e1 + 1 <= Len(s) /\ s[e1 + 1] = "."
             /\ e2 >= e1 + 2
             /\ e2 + 1 <= Len(s) /\ s[e2 + 1] = "."
             /\ e3 >= e2 + 2
             /\ (e3 = Len(s) \/ ~isWordChar(s[e3 + 1]))
          THEN [matched |-> TRUE, whole |-> SubSeq(s, i, e3),
                major |-> SubSeq(s, i, e1),
                minor |-> SubSeq(s, e1 + 2, e2),
                patch |-> SubSeq(s, e2 + 2, e3)]
          ELSE [matched |-> FALSE] :
          e1 \in {runEnd(s, i, Range(DigitChars))},
          e2 \in {runEnd(s, runEnd(s, i, Range(DigitChars)) + 2, Range(DigitChars))},
          e3 \in {runEnd(s, runEnd(s, runEnd(s, i, Range(DigitChars)) + 2,
                                   Range(DigitChars)) + 2, Range(DigitChars))} } : TRUE

\* s.match(/(\d+)\.(\d+)\.(\d+)\b/): the leftmost match
semverMatch(s) ==
    CHOOSE match \in
        { LET starts == {i \in 1..Len(str) : semverAt(str, i).matched}
          IN  IF starts = {} THEN [matched |-> FALSE]
              ELSE semverAt(str, CHOOSE i \in starts : \A j \in starts : i <= j) :
          str \in {s} } : TRUE

parseSemver(value) ==
    CHOOSE parsed \in
        { IF ~match.matched THEN Null
          ELSE [major |-> Number(match.major),
                minor |-> Number(match.minor),
                patch |-> Number(match.patch)] :
          match \in { semverMatch(IF Len(trimmed) > 0 /\ trimmed[1] \in {"v", "V"}
                                  THEN Tail(trimmed) ELSE trimmed) :
                      trimmed \in {trim(value)} } } : TRUE

formatSemver(value) ==
    <<"v">> \o numberToString(value.major) \o <<".">> \o numberToString(value.minor)
            \o <<".">> \o numberToString(value.patch)

\* compareSemver with the minor number left out
compareSemver_skipMinor(a, b) ==
    IF a.major # b.major THEN a.major - b.major
    ELSE a.patch - b.patch

compareSemver(a, b) ==
    IF a.major # b.major THEN a.major - b.major
    ELSE IF a.minor # b.minor THEN a.minor - b.minor
    ELSE a.patch - b.patch

\* markdown.split(/\r?\n/): cut at every "\n", a "\r" right before it goes with it
splitLines(markdown) ==
    LET breaks == {k \in 1..Len(markdown) : markdown[k] = "\n"}
        n == Cardinality(breaks)
        break(i) == IF i = 0 THEN 0
                    ELSE IF i = n + 1 THEN Len(markdown) + 1
                    ELSE CHOOSE k \in breaks : Cardinality({j \in breaks : j < k}) = i - 1
        lineEnd(i) == IF /\ i <= n
                         /\ break(i) - 1 > break(i - 1)
                         /\ markdown[break(i) - 1] = "\r"
                      THEN break(i) - 2
                      ELSE break(i) - 1
    IN  [i \in 1..(n + 1) |-> SubSeq(markdown, break(i - 1) + 1, lineEnd(i))]

\* the tail \s+(.+)$ of a line pattern whose earlier part ended at position p:
\* \s+ is greedy, so the capture starts after the longest run of white space that
\* still leaves it a character, and it runs to the end of the line (the . matches
\* no line terminator)
spaceThenRest(line, p) ==
    LET cuts == {j \in (p + 1)..(Len(line) - 1) :
                    /\ \A k \in (p + 1)..j : line[k] \in WhiteSpace
                    /\ \A k \in (j + 1)..Len(line) : line[k] \notin {"\n", "\r"}}
    IN  IF cuts = {} THEN [matched |-> FALSE]
        ELSE [matched |-> TRUE,
              group |-> SubSeq(line, (CHOOSE j \in cuts : \A k \in cuts : k <= j) + 1,
                               Len(line))]

\* line.match(/^##\s+(.+)$/)
headingMatch(line) ==
    IF Len(line) >= 2 /\ line[1] = "#" /\ line[2] = "#"
    THEN spaceThenRest(line, 2)
    ELSE [matched |-> FALSE]

\* line.match(/^[-*]\s+\[([ xX])\]\s+(.+)$/)
taskMatch(line) ==
    CHOOSE match \in
        { IF /\ Len(line) >= 1 /\ line[1] \in {"-", "*"}
             /\ e >= 2
             /\ e + 3 <= Len(line)
             /\ line[e + 1] = "[" /\ line[e + 2] \in {" ", "x", "X"} /\ line[e + 3] = "]"
             /\ spaceThenRest(line, e + 3).matched
          THEN [matched |-> TRUE, mark |-> line[e + 2],
                text |-> spaceThenRest(line, e + 3).group]
          ELSE [matched |-> FALSE] :
          e \in {runEnd(line, 2, WhiteSpace)} } : TRUE

\* a line that matched the heading pattern: a milestone opens if the heading
\* holds a version, else current becomes null (0).  versionMatch is
\* heading.match(/v?(\d+\.\d+\.\d+)\b/i), its group 1 the three numbers matched.
parseHeading(state, headingGroup) ==
    CHOOSE next \in
        { IF version # Null
          THEN [milestones |-> Append(state.milestones,
                                      [heading |-> heading, version |-> version,
                                       items |-> <<>>]),
                current |-> Len(state.milestones) + 1]
          ELSE [milestones |-> state.milestones, current |-> 0] :
          heading \in {trim(headingGroup)},
          version \in { IF versionMatch.matched THEN parseSemver(versionMatch.whole)
                        ELSE Null :
                        versionMatch \in {semverMatch(trim(headingGroup))} } } : TRUE

\* the loop body of parseRoadmapMarkdown.  current is the index in milestones of
\* the milestone the code's variable current refers to, 0 for null.
parseLine(state, line) ==
    CHOOSE next \in
        { IF heading.matched THEN parseHeading(state, heading.group)
          ELSE IF task.matched /\ state.current # 0
          THEN [milestones |->
                    [state.milestones EXCEPT ![state.current].items =
                         Append(@, [done |-> toLowerCase(<<task.mark>>) = <<"x">>,
                                    text |-> trim(task.text)])],
                current |-> state.current]
          ELSE state :
          heading \in {headingMatch(line)}, task \in {taskMatch(line)} } : TRUE

RECURSIVE parseLines(_, _)
parseLines(lines, n) ==
    IF n = 0 THEN [milestones |-> <<>>, current |-> 0]
    ELSE CHOOSE state \in { parseLine(before, lines[n]) :
                              before \in {parseLines(lines, n - 1)} } : TRUE

parseRoadmapMarkdown(markdown) ==
    CHOOSE milestones \in
        { parseLines(lines, Len(lines)).milestones :
          lines \in { splitLines(text) : text \in {markdown} } } : TRUE

\* Array.prototype.find: the first element in keep, Null for undefined
ArrayFind(arr, keep) ==
    LET hits == {i \in 1..Len(arr) : arr[i] \in keep}
    IN  IF hits = {} THEN Null
        ELSE arr[CHOOSE i \in hits : \A j \in hits : i <= j]

\* items.filter((item) => !item.done).map((item) => item.text)
uncheckedTexts(items) ==
    CHOOSE texts \in
        { [i \in 1..Len(open) |-> open[i].text] :
          open \in {ArrayFilter(items, {it \in Range(items) : ~it.done})} } : TRUE

\* ---- roadmap lines, tags and addresses drawn

\* "## v1.3.0"
L_H130 == <<"#","#"," ","v","1",".","3",".","0">>
\* "## Mira 1.10.0"
L_H1100 == <<"#","#"," ","M","i","r","a"," ","1",".","1","0",".","0">>
\* "- [x] Tabs"
L_DoneTabs == <<"-"," ","[","x","]"," ","T","a","b","s">>
\* "- [ ] Sync"
L_TodoSync == <<"-"," ","["," ","]"," ","S","y","n","c">>
\* "https://github.com/FatalMistake02/mira/releases/tag/v1.1.0"
U_TagV110 == <<"h","t","t","p","s",":","/","/","g","i","t","h","u","b",".","c","o","m","/","F","a","t","a","l","M","i","s","t","a","k","e","0","2","/","m","i","r","a","/","r","e","l","e","a","s","e","s","/","t","a","g","/","v","1",".","1",".","0">>
\* "/tag/"
S_tagPath == <<"/","t","a","g","/">>
\* "No tasks listed for this milestone."
S_NoTasksListed == <<"N","o"," ","t","a","s","k","s"," ","l","i","s","t","e","d"," ","f","o","r"," ","t","h","i","s"," ","m","i","l","e","s","t","o","n","e",".">>
\* "No newer roadmap milestone listed yet"
S_NoNewerMilestone == <<"N","o"," ","n","e","w","e","r"," ","r","o","a","d","m","a","p"," ","m","i","l","e","s","t","o","n","e"," ","l","i","s","t","e","d"," ","y","e","t">>
\* "ROADMAP.md currently has no version higher than the latest stable release."
S_NoHigherVersion == <<"R","O","A","D","M","A","P",".","m","d"," ","c","u","r","r","e","n","t","l","y"," ","h","a","s"," ","n","o"," ","v","e","r","s","i","o","n"," ","h","i","g","h","e","r"," ","t","h","a","n"," ","t","h","e"," ","l","a","t","e","s","t"," ","s","t","a","b","l","e"," ","r","e","l","e","a","s","e",".">>

ROADMAP_URL == "https://raw.githubusercontent.com/FatalMistake02/mira/main/ROADMAP.md"

\* ---- the fetches

\* resolvedUrl.match(/\/tag\/([^/?#]+)/i): group 1 of the leftmost match
tagMatch(resolvedUrl) ==
    LET stops == {"/", "?", "#"}
        starts == {i \in 1..(Len(resolvedUrl) - Len(S_tagPath)) :
                      /\ toLowerCase(SubSeq(resolvedUrl, i, i + Len(S_tagPath) - 1)) = S_tagPath
                      /\ resolvedUrl[i + Len(S_tagPath)] \notin stops}
        at == (CHOOSE i \in starts : \A j \in starts : i <= j) + Len(S_tagPath)
    IN  IF starts = {} THEN [matched |-> FALSE]
        ELSE [matched |-> TRUE,
              group |-> SubSeq(resolvedUrl, at,
                               runEnd(resolvedUrl, at, Range(resolvedUrl) \ stops))]

\* fetchCurrentStableVersion against what the three addresses answer.  An answer
\* is [kind |-> "ok", ...], [kind |-> "notok"] or, for a fetch that rejects,
\* [kind |-> "rejected"].

\* the version in the address the latest-release page redirected to (third try)
versionFromLatestPage(answer) ==
    IF answer.kind = "rejected" THEN [threw |-> TRUE]
    ELSE IF answer.kind # "ok" THEN [threw |-> FALSE, value |-> Null]
    ELSE CHOOSE result \in
        { IF tag.matched THEN [threw |-> FALSE, value |-> parseSemver(tag.group)]
          ELSE [threw |-> FALSE, value |-> Null] :
          tag \in {tagMatch(answer.url)} } : TRUE

\* the version of the first stable release of the list (second try), else the third
versionFromReleases(answers) ==
    IF answers.releases.kind = "rejected" THEN [threw |-> TRUE]
    ELSE IF answers.releases.kind # "ok" THEN versionFromLatestPage(answers.latestPage)
    ELSE CHOOSE result \in
        { IF stableVersion # Null THEN [threw |-> FALSE, value |-> stableVersion]
          ELSE versionFromLatestPage(answers.latestPage) :
          stableVersion \in
              { IF stableRelease # Null THEN parseSemver(stableRelease.tag_name) ELSE Null :
                stableRelease \in
                    { ArrayFind(answers.releases.data,
                                {r \in Range(answers.releases.data) :
                                    ~r.prerelease /\ ~r.draft}) } } } : TRUE

fetchCurrentStableVersion(answers) ==
    IF answers.latest.kind = "rejected" THEN [threw |-> TRUE]
    ELSE IF answers.latest.kind # "ok" THEN versionFromReleases(answers)
    ELSE CHOOSE result \in
        { IF latestVersion # Null THEN [threw |-> FALSE, value |-> latestVersion]
          ELSE versionFromReleases(answers) :
          latestVersion \in {parseSemver(answers.latest.tag_name)} } : TRUE

\* fetchRoadmapMarkdown.  The contents answer carries, for encoding "base64", the
\* text its content decodes to (Buffer.from(..., "base64").toString("utf-8")).
fetchRoadmapMarkdown(answers) ==
    IF answers.contents.kind = "rejected" THEN [threw |-> TRUE]
    ELSE IF /\ answers.contents.kind = "ok"
            /\ answers.contents.encoding = "base64"
            /\ Len(trim(answers.contents.text)) > 0
    THEN [threw |-> FALSE,
          value |-> [markdown |-> answers.contents.text,
                     sourceUrl |-> "https://github.com/FatalMistake02/mira/blob/main/ROADMAP.md"]]
    ELSE IF answers.raw.kind = "rejected" THEN [threw |-> TRUE]
    ELSE IF answers.raw.kind # "ok" THEN [threw |-> FALSE, value |-> Null]
    ELSE IF Len(trim(answers.raw.text)) = 0 THEN [threw |-> FALSE, value |-> Null]
    ELSE [threw |-> FALSE,
          value |-> [markdown |-> answers.raw.text, sourceUrl |-> ROADMAP_URL]]

\* milestones.find((milestone) => compareSemver(milestone.version, version) > 0)
findAbove(milestones, version) ==
    ArrayFind(milestones,
              {m \in Range(milestones) : compareSemver(m.version, version) > 0})

\* milestones.find((milestone) => milestone.items.some((item) => !item.done))
findWithWork(milestones) ==
    ArrayFind(milestones,
              {m \in Range(milestones) : \E i \in 1..Len(m.items) : ~m.items[i].done})

\* the plan of a milestone found: its unchecked items, else all its items
planOf(roadmap, currentVersion, nextMilestone) ==
    CHOOSE result \in
        { [currentVersion |-> IF currentVersion # Null
                              THEN Some(formatSemver(currentVersion)) ELSE None,
           nextVersionHeading |-> nextMilestone.heading,
           items |-> IF Len(uncheckedItems) > 0 THEN uncheckedItems
                     ELSE IF Len(nextMilestone.items) > 0
                     THEN [i \in 1..Len(nextMilestone.items) |->
                               nextMilestone.items[i].text]
                     ELSE <<S_NoTasksListed>>,
           sourceUrl |-> roadmap.sourceUrl,
           hasNextVersion |-> TRUE] :
          uncheckedItems \in {uncheckedTexts(nextMilestone.items)} } : TRUE

\* no milestone above the current version: the first one with open work, if any
planWithoutNewer(roadmap, currentVersion, firstUpcomingWithWork) ==
    IF firstUpcomingWithWork # Null
    THEN CHOOSE result \in
        { [currentVersion |-> Some(formatSemver(currentVersion)),
           nextVersionHeading |-> firstUpcomingWithWork.heading,
           items |-> IF Len(uncheckedFallback) > 0 THEN uncheckedFallback
                     ELSE <<S_NoTasksListed>>,
           sourceUrl |-> roadmap.sourceUrl,
           hasNextVersion |-> TRUE] :
          uncheckedFallback \in {uncheckedTexts(firstUpcomingWithWork.items)} } : TRUE
    ELSE [currentVersion |-> Some(formatSemver(currentVersion)),
          nextVersionHeading |-> S_NoNewerMilestone,
          items |-> <<S_NoHigherVersion>>,
          sourceUrl |-> roadmap.sourceUrl,
          hasNextVersion |-> FALSE]

\* the plan once the roadmap is fetched, its milestones are sorted and the current
\* version is fetched
upcomingReleasePlan(roadmap, milestones, currentVersion) ==
    IF currentVersion # Null
    THEN CHOOSE result \in
        { IF nextMilestone # Null THEN planOf(roadmap, currentVersion, nextMilestone)
          ELSE CHOOSE fallback \in
              { planWithoutNewer(roadmap, currentVersion, firstUpcomingWithWork) :
                firstUpcomingWithWork \in {findWithWork(milestones)} } : TRUE :
          nextMilestone \in {findAbove(milestones, currentVersion)} } : TRUE
    ELSE CHOOSE result \in
        { planOf(roadmap, currentVersion,
                 IF newer # Null THEN newer
                 ELSE IF withWork # Null THEN withWork
                 ELSE milestones[1]) :
          newer \in {findAbove(milestones, milestones[1].version)},
          withWork \in {findWithWork(milestones)} } : TRUE

\* fetchUpcomingReleasePlan: anything thrown inside is caught and gives null
fetchUpcomingReleasePlan(roadmapAnswers, releaseAnswers) ==
    CHOOSE result \in
        { IF roadmap.threw THEN Null
          ELSE IF roadmap.value = Null THEN Null
          ELSE CHOOSE afterRoadmap \in
              { IF Len(milestones) = 0 THEN Null
                ELSE CHOOSE afterVersion \in
                    { IF currentVersion.threw THEN Null
                      ELSE upcomingReleasePlan(roadmap.value, milestones,
                                               currentVersion.value) :
                      currentVersion \in {fetchCurrentStableVersion(releaseAnswers)} } : TRUE :
                milestones \in
                    { ArraySort(parsed, [p \in Range(parsed) \X Range(parsed) |->
                                            compareSemver(p[1].version, p[2].version)]) :
                      parsed \in {parseRoadmapMarkdown(roadmap.value.markdown)} } } : TRUE :
          roadmap \in {fetchRoadmapMarkdown(roadmapAnswers)} } : TRUE

\* ---- what the addresses answer

\* ROADMAP.md: at most MaxLines of the lines drawn, joined by one line break
RoadmapLines ==
    { L_H130, L_H1100, L_DoneTabs, L_TodoSync,
      \* "## v1.2.0"
      <<"#","#"," ","v","1",".","2",".","0">>,
      \* "* [ ] Split view " (a space at the end)
      <<"*"," ","["," ","]"," ","S","p","l","i","t"," ","v","i","e","w"," ">> }

RECURSIVE joinLines(_, _, _)
joinLines(lines, n, eol) ==
    IF n = 0 THEN <<>>
    ELSE IF n = 1 THEN lines[1]
    ELSE joinLines(lines, n - 1, eol) \o eol \o lines[n]

RoadmapAnswers ==
    { [contents |-> [kind |-> "ok", encoding |-> "base64", text |-> t],
       raw |-> [kind |-> "notok"]] :
         t \in UNION { { joinLines(lines, n, <<"\n">>) : lines \in [1..n -> RoadmapLines] } :
                       n \in 0..MaxLines } }
    \cup { [contents |-> c, raw |-> [kind |-> "ok", text |-> t]] :
             c \in { [kind |-> "notok"], [kind |-> "ok", encoding |-> "none"] },
             t \in { L_H130 \o <<"\r", "\n">> \o L_TodoSync,
                     L_H1100 \o <<"\r", "\n">> \o L_DoneTabs \o <<"\n">>,
                     <<" ", "\n">> } }
    \cup { [contents |-> [kind |-> "notok"], raw |-> [kind |-> "notok"]],
           [contents |-> [kind |-> "rejected"], raw |-> [kind |-> "notok"]],
           [contents |-> [kind |-> "notok"], raw |-> [kind |-> "rejected"]] }

Unanswered == [kind |-> "notok"]

\* the three addresses of fetchCurrentStableVersion
ReleaseAnswers ==
    { [latest |-> [kind |-> "ok", tag_name |-> t],
       releases |-> Unanswered, latestPage |-> Unanswered]  :
         \* "v1.2.0", "v1.3.0"
         t \in {<<"v","1",".","2",".","0">>, <<"v","1",".","3",".","0">>} }
    \cup
    { \* latest is "nightly"; of the releases, "v2.0.0-beta.1" is a prerelease and
      \* "1.10.0" is stable
      [latest |-> [kind |-> "ok", tag_name |-> <<"n","i","g","h","t","l","y">>],
       releases |-> [kind |-> "ok", data |->
           << [tag_name |-> <<"v","2",".","0",".","0","-","b","e","t","a",".","1">>,
               prerelease |-> TRUE, draft |-> FALSE],
              [tag_name |-> <<"1",".","1","0",".","0">>, prerelease |-> FALSE, draft |-> FALSE] >>],
       latestPage |-> Unanswered],
      [latest |-> Unanswered, releases |-> Unanswered,
       latestPage |-> [kind |-> "ok", url |-> U_TagV110]],
      [latest |-> Unanswered, releases |-> Unanswered, latestPage |-> Unanswered],
      [latest |-> [kind |-> "rejected"], releases |-> Unanswered,
       latestPage |-> Unanswered] }

\* ---- the request

AboutPage ==
    /\ aboutPc = "request"
    /\ plan' = fetchUpcomingReleasePlan(roadmapUpstream, releasesUpstream)
    /\ aboutPc' = "responded"
    /\ UNCHANGED <<roadmapUpstream, releasesUpstream>>
    /\ UNCHANGED <<pageVars, cardVars>>

\* no request to the about page
NoAbout ==
    /\ roadmapUpstream = [contents |-> [kind |-> "notok"], raw |-> [kind |-> "notok"]]
    /\ releasesUpstream = [latest |-> Unanswered, releases |-> Unanswered,
                           latestPage |-> Unanswered]
    /\ aboutPc = "responded"
    /\ plan = Null

\* ---- the three programs, each alone

\* no component: the downloads page alone
NoCards ==
    /\ nav = Browser(FALSE, None, NoUserAgentData, V_Win32, UA_ChromeWindows)
    /\ slots = <<>>
    /\ given = <<>>
    /\ os = "unknown"
    /\ canceled = FALSE
    /\ phase = "unmounted"
    /\ detection = "idle"
    /\ resolvedValue = "none"
    /\ mountedAtResolve = FALSE
    /\ started = 0
    /\ writes = 0
    /\ cards = <<>>

\* no request: the component alone
NoPage ==
    /\ searchParams = [kind |-> "undefined"]
    /\ upstream = [kind |-> "ok", data |-> <<>>]
    /\ pagePc = "responded"
    /\ page = renderDownloadsPage(searchParams, upstream)

InitPage ==
    /\ searchParams \in QueryValues
    /\ upstream \in FeedAnswers
    /\ pagePc = "request"
    /\ page = Null
    /\ NoCards
    /\ NoAbout

InitSlots ==
    /\ searchParams = [kind |-> "undefined"]
    /\ upstream \in SingleReleaseAnswers
                    \cup { [kind |-> k, data |-> <<>>] : k \in {"ok", "notok", "rejected"} }
    /\ pagePc = "request"
    /\ page = Null
    /\ NoCards
    /\ NoAbout

NextPage == DownloadsPage

\* requests against feeds of several releases
SpecPage == InitPage /\ [][NextPage]_vars

\* requests against a feed of one release, over every asset list
SpecSlots == InitSlots /\ [][NextPage]_vars

\* after the first render: os is "unknown", the cards are in the given order
InitCards ==
    /\ NoPage
    /\ NoAbout
    /\ nav \in CardNavigators
    /\ given \in CardSlotLists
    /\ slots = given
    /\ os = "unknown"
    /\ canceled = FALSE
    /\ phase = "rendered"
    /\ detection = "idle"
    /\ resolvedValue = "none"
    /\ mountedAtResolve = FALSE
    /\ started = 0
    /\ writes = 0
    /\ cards = renderCards(orderedSlots(given, "unknown").ordered, "unknown")

NextCards ==
    \/ EffectMount
    \/ DetectionResolves
    \/ ReceiveProps
    \/ EffectCleanup

SpecCards == InitCards /\ [][NextCards]_vars

\* the promise of detectOS settles and its callback is run
SpecCardsFair == SpecCards /\ WF_vars(DetectionResolves)

\* no component mounted: detectOS alone, in one of the browsers
InitDetect ==
    /\ NoPage
    /\ NoAbout
    /\ nav \in DetectNavigators
    /\ slots = <<>>
    /\ given = <<>>
    /\ os = "unknown"
    /\ canceled = FALSE
    /\ phase = "unmounted"
    /\ detection = "idle"
    /\ resolvedValue = "none"
    /\ mountedAtResolve = FALSE
    /\ started = 0
    /\ writes = 0
    /\ cards = <<>>

NextDetect == CallDetectOS

\* calls of detectOS over the signals of a navigator
SpecDetect == InitDetect /\ [][NextDetect]_vars

InitRoadmap ==
    /\ NoPage
    /\ NoCards
    /\ roadmapUpstream \in RoadmapAnswers
    /\ releasesUpstream \in ReleaseAnswers
    /\ aboutPc = "request"
    /\ plan = Null

NextRoadmap == AboutPage

\* requests to the about page
SpecRoadmap == InitRoadmap /\ [][NextRoadmap]_vars

\* ================================================================ claims

\* ---- what the request asked and what the feed held, read off the inputs

\* the caller's flag: includePrereleases is "1" or "true", in either value form
CallerFlag ==
    \/ searchParams.kind = "string" /\ searchParams.str \in {"1", "true"}
    \/ searchParams.kind = "array"
       /\ \E i \in 1..Len(searchParams.arr) : searchParams.arr[i] \in {"1", "true"}

\* the non-draft releases of the feed, in feed order
NonDraftReleases ==
    IF upstream.kind = "ok" THEN SelectSeq(upstream.data, LAMBDA r : ~r.draft) ELSE <<>>

StableNonDraftReleases == SelectSeq(NonDraftReleases, LAMBDA r : ~r.prerelease)

Responded == pagePc = "responded" /\ ~page.threw

\* C1: the effective include-prereleases decision is (caller flag OR no stable
\* release exists); the selected release is the first of all non-draft releases
\* when the decision is true, else the first stable one, and none only when the
\* list it is taken from is empty.
C1_Selection ==
    Responded =>
        LET effective == CallerFlag \/ StableNonDraftReleases = <<>>
            from == IF effective THEN NonDraftReleases ELSE StableNonDraftReleases
        IN  /\ page.effectiveIncludePrereleases = effective
            /\ (from = <<>>) <=> (page.selectedRelease = Null)
            /\ from # <<>> => page.selectedRelease = from[1]

\* C1 witness: flag false, no stable release, two prereleases behind a draft:
\* prereleases are forced and the most recent non-draft release is selected
C1_Witness ==
    /\ Responded
    /\ ~CallerFlag
    /\ StableNonDraftReleases = <<>>
    /\ Len(NonDraftReleases) >= 2
    /\ upstream.data[1].draft
    /\ page.effectiveIncludePrereleases
    /\ page.selectedRelease = NonDraftReleases[1]

CanonicalPlatforms ==
    <<"windows", "windows", "mac-arm64", "mac-arm64", "mac-x64", "mac-x64">>

CanonicalLabels ==
    << "Windows Installer", "Windows Portable",
       "macOS (Apple Silicon) Installer", "macOS (Apple Silicon) Portable",
       "macOS (Intel) Installer", "macOS (Intel) Portable" >>

\* C2: with a release selected, exactly six slots reach the client, in the order
\* windows-installer, windows-portable, mac-arm64-installer, mac-arm64-portable,
\* mac-x64-installer, mac-x64-portable with the platform tags windows, windows,
\* mac-arm64, mac-arm64, mac-x64, mac-x64, whatever the release's assets; with no
\* release selected there are no slots at all.
C2_SixSlots ==
    Responded =>
        IF page.selectedRelease # Null
        THEN /\ DOMAIN page.slots =
                  { "windowsInstaller", "windowsPortable", "macArm64Installer",
                    "macArm64Portable", "macX64Installer", "macX64Portable" }
             /\ Len(page.downloadCards) = 6
             /\ page.downloadCards[1] = page.slots.windowsInstaller
             /\ page.downloadCards[2] = page.slots.windowsPortable
             /\ page.downloadCards[3] = page.slots.macArm64Installer
             /\ page.downloadCards[4] = page.slots.macArm64Portable
             /\ page.downloadCards[5] = page.slots.macX64Installer
             /\ page.downloadCards[6] = page.slots.macX64Portable
             /\ \A i \in 1..6 :
                  /\ page.downloadCards[i].platform = CanonicalPlatforms[i]
                  /\ page.downloadCards[i].label = CanonicalLabels[i]
        ELSE page.slots = Null /\ page.downloadCards = <<>>

\* C2 witness: a release whose only asset is not downloadable still yields the
\* six slots in order
C2_Witness ==
    /\ Responded
    /\ page.selectedRelease # Null
    /\ Len(page.selectedRelease.assets) = 1
    /\ page.selectedRelease.assets[1].name = N_ChecksumsTxt
    /\ Len(page.downloadCards) = 6
    /\ page.downloadCards[5].platform = "mac-x64"

\* ---- the candidate pools of the selected release, as sets

PoolOf(family, style, arch) ==
    { a \in Range(page.selectedRelease.assets) :
        /\ assetClass[a.name].downloadable
        /\ IF family = "windows" THEN assetClass[a.name].windows ELSE assetClass[a.name].mac
        /\ IF style = "installer" THEN assetClass[a.name].installer
           ELSE assetClass[a.name].portable
        /\ family = "mac" => assetClass[a.name].architecture = arch }

\* a mac slot's pool after the architecture fallback
MacPoolOf(style, arch) ==
    IF PoolOf("mac", style, arch) # {} THEN PoolOf("mac", style, arch)
    ELSE PoolOf("mac", style, "unknown")

HasTerm(name, term) == includes(toLowerCase(name), term)

\* the windows-installer score of each name: 30 for "setup", 20 for ".msi",
\* 10 for ".exe"
WindowsInstallerScores ==
    [ name \in AssetNames |->
        (IF HasTerm(name, S_setup) THEN (3 - 0) * 10 ELSE 0)
        + (IF HasTerm(name, S_msi) THEN (3 - 1) * 10 ELSE 0)
        + (IF HasTerm(name, S_exe) THEN (3 - 2) * 10 ELSE 0) ]

WindowsInstallerScore(a) == WindowsInstallerScores[a.name]

\* C3: with at least one Windows installer-style asset, windowsInstaller.asset is
\* non-null and is a highest-scoring candidate of the windows-installer pool, the
\* larger byte size winning among equal scores.
C3_BestWindowsInstaller ==
    (Responded /\ page.selectedRelease # Null) =>
        LET pool == PoolOf("windows", "installer", "any")
            chosen == page.slots.windowsInstaller.asset
        IN  pool # {} =>
              /\ chosen # Null
              /\ chosen \in pool
              /\ \A b \in pool :
                    \/ WindowsInstallerScore(chosen) > WindowsInstallerScore(b)
                    \/ /\ WindowsInstallerScore(chosen) = WindowsInstallerScore(b)
                       /\ chosen.size >= b.size

\* C3 witness: two installers of equal score, the smaller listed first, and the
\* larger one chosen
C3_Witness ==
    /\ Responded
    /\ page.selectedRelease # Null
    /\ Len(page.selectedRelease.assets) = 2
    /\ LET a == page.selectedRelease.assets[1]
           b == page.selectedRelease.assets[2]
       IN  /\ {a, b} = PoolOf("windows", "installer", "any")
           /\ WindowsInstallerScore(a) = WindowsInstallerScore(b)
           /\ WindowsInstallerScore(a) > 0
           /\ a.size < b.size
           /\ page.slots.windowsInstaller.asset = b

\* the asset of a slot is null exactly when its pool is empty, else of the pool
FromPool(slot, pool) ==
    IF pool = {} THEN slot.asset = Null ELSE slot.asset # Null /\ slot.asset \in pool

\* C4: for every release each of the six slots has asset = null exactly when its
\* candidate pool (after the mac architecture fallback) is empty and otherwise
\* holds a member of that pool; a release with zero assets has six null slots.
C4_NullIffEmptyPool ==
    (Responded /\ page.selectedRelease # Null) =>
        /\ FromPool(page.slots.windowsInstaller, PoolOf("windows", "installer", "any"))
        /\ FromPool(page.slots.windowsPortable, PoolOf("windows", "portable", "any"))
        /\ FromPool(page.slots.macArm64Installer, MacPoolOf("installer", "arm64"))
        /\ FromPool(page.slots.macArm64Portable, MacPoolOf("portable", "arm64"))
        /\ FromPool(page.slots.macX64Installer, MacPoolOf("installer", "x64"))
        /\ FromPool(page.slots.macX64Portable, MacPoolOf("portable", "x64"))
        /\ page.selectedRelease.assets = <<>> =>
              \A i \in 1..6 : page.downloadCards[i].asset = Null

\* C4 witness: a release with assets where the Intel installer slot falls back to
\* an unknown-architecture asset while the windows slots stay empty
C4_Witness ==
    /\ Responded
    /\ page.selectedRelease # Null
    /\ page.selectedRelease.assets # <<>>
    /\ PoolOf("mac", "installer", "x64") = {}
    /\ page.slots.macX64Installer.asset # Null
    /\ page.slots.macArm64Installer.asset # Null
    /\ page.slots.macArm64Installer.asset # page.slots.macX64Installer.asset
    /\ page.slots.windowsInstaller.asset = Null
    /\ page.slots.macX64Portable.asset = Null

\* the slot of a mac architecture and style
MacSlot(arch, style) ==
    IF arch = "arm64"
    THEN (IF style = "installer" THEN page.slots.macArm64Installer
          ELSE page.slots.macArm64Portable)
    ELSE (IF style = "installer" THEN page.slots.macX64Installer
          ELSE page.slots.macX64Portable)

OtherArchitecture(arch) == IF arch = "arm64" THEN "x64" ELSE "arm64"

\* C13: for each mac architecture A and style S, if the release has a mac asset
\* of architecture A and style S the (A,S) slot's asset is chosen from those
\* assets only; otherwise it is chosen from the mac assets of unknown
\* architecture and style S, null if there are none. The fallback is decided per
\* (A,S) pool, and a slot never receives an asset of the other architecture.
C13_MacFallbackPerPool ==
    (Responded /\ page.selectedRelease # Null) =>
        \A arch \in {"arm64", "x64"}, style \in {"installer", "portable"} :
            \E exact \in {PoolOf("mac", style, arch)} :
            \E unknown \in {PoolOf("mac", style, "unknown")} :
            \E chosen \in {MacSlot(arch, style).asset} :
                /\ exact # {} => (chosen # Null /\ chosen \in exact)
                /\ (exact = {} /\ unknown # {}) => (chosen # Null /\ chosen \in unknown)
                /\ (exact = {} /\ unknown = {}) => chosen = Null
                /\ chosen # Null =>
                      assetClass[chosen.name].architecture # OtherArchitecture(arch)

\* C13 witness: an arm64 installer and a portable of unknown architecture: the
\* arm64 installer slot takes the first, the arm64 portable slot falls back to
\* the second, the Intel installer slot stays empty and the Intel portable slot
\* falls back too
C13_Witness ==
    /\ Responded
    /\ page.selectedRelease # Null
    /\ PoolOf("mac", "installer", "arm64") # {}
    /\ page.slots.macArm64Installer.asset \in PoolOf("mac", "installer", "arm64")
    /\ PoolOf("mac", "portable", "arm64") = {}
    /\ PoolOf("mac", "portable", "unknown") # {}
    /\ page.slots.macArm64Portable.asset \in PoolOf("mac", "portable", "unknown")
    /\ page.slots.macX64Installer.asset = Null
    /\ page.slots.macX64Portable.asset = page.slots.macArm64Portable.asset

\* the downloadable assets of the selected release classified windows, and mac
WindowsCandidates ==
    { a \in Range(page.selectedRelease.assets) :
        assetClass[a.name].downloadable /\ assetClass[a.name].windows }

MacCandidates ==
    { a \in Range(page.selectedRelease.assets) :
        assetClass[a.name].downloadable /\ assetClass[a.name].mac }

\* C15: within one resolution no release asset is chosen both for a windows slot
\* and for a mac slot: the windows candidate pools and the mac candidate pools
\* are disjoint (an asset named as a macOS or darwin build is never offered
\* under a Windows slot).
C15_WindowsMacDisjoint ==
    (Responded /\ page.selectedRelease # Null) =>
        /\ WindowsCandidates \cap MacCandidates = {}
        /\ \A w \in {page.slots.windowsInstaller, page.slots.windowsPortable} :
           \A m \in {page.slots.macArm64Installer, page.slots.macArm64Portable,
                      page.slots.macX64Installer, page.slots.macX64Portable} :
               w.asset # Null => w.asset # m.asset

\* C7: a failure of the releases fetch, a non-success response or a failed
\* request, ends in the no-release state without a throw: no release selected,
\* no slots, the no-release notice.
C7_FetchFailureDegrades ==
    (pagePc = "responded" /\ upstream.kind \in {"notok", "rejected"}) =>
        /\ ~page.threw
        /\ page.selectedRelease = Null
        /\ page.slots = Null
        /\ page.downloadCards = <<>>
        /\ page.noReleaseNotice

\* ---- DownloadCards

\* the slots in displayed order
Displayed == [i \in 1..Len(cards) |-> cards[i].slot]

CountIn(arr, x) == Cardinality({i \in 1..Len(arr) : arr[i] = x})

IsPermutation(a, b) ==
    /\ Len(a) = Len(b)
    /\ \A x \in Range(a) \cup Range(b) : CountIn(a, x) = CountIn(b, x)

\* where a slot stands in the array the parent handed over
GivenIndex(slot) == CHOOSE i \in 1..Len(given) : given[i] = slot

\* the relevance table: detected platform against slot platform
TableScore(detected, platform) ==
    CASE detected = "windows" -> IF platform = "windows" THEN 0 ELSE 2
      [] detected = "mac-arm64" ->
            IF platform = "mac-arm64" THEN 0 ELSE IF platform = "mac-x64" THEN 1 ELSE 2
      [] detected = "mac-x64" ->
            IF platform = "mac-x64" THEN 0 ELSE IF platform = "mac-arm64" THEN 1 ELSE 2
      [] detected = "mac" -> IF platform = "windows" THEN 2 ELSE 0
      [] detected \in {"other", "unknown"} -> 0

\* C5: the displayed order is the input order stably sorted by ascending table
\* score; with mac-arm64 every mac-arm64 slot precedes every mac-x64 slot, which
\* precedes every windows slot; equal scores keep their input order; with other
\* or unknown the displayed order is the input order.
C5_StableRelevanceOrder ==
    phase # "unmounted" =>
        /\ IsPermutation(Displayed, given)
        /\ \A i, j \in 1..Len(Displayed) :
              i < j =>
                /\ TableScore(os, Displayed[i].platform) <= TableScore(os, Displayed[j].platform)
                /\ TableScore(os, Displayed[i].platform) = TableScore(os, Displayed[j].platform)
                     => GivenIndex(Displayed[i]) < GivenIndex(Displayed[j])
        /\ os = "mac-arm64" =>
              \A i, j \in 1..Len(Displayed) :
                 \/ /\ Displayed[i].platform = "mac-arm64"
                    /\ Displayed[j].platform \in {"mac-x64", "windows"}
                 \/ /\ Displayed[i].platform = "mac-x64"
                    /\ Displayed[j].platform = "windows"
                 => i < j
        /\ os \in {"other", "unknown"} => Displayed = given

\* C5 witness: mac-arm64 detected and the cards reordered to arm64, x64, windows
C5_Witness ==
    /\ phase = "mounted"
    /\ os = "mac-arm64"
    /\ [i \in 1..Len(Displayed) |-> Displayed[i].platform]
         = <<"mac-arm64", "mac-arm64", "mac-x64", "mac-x64", "windows", "windows">>
    /\ Displayed[1] = given[3]
    /\ Displayed[6] = given[2]

\* C6: a card is rendered applicable exactly when the detected platform is
\* unknown or other, or it is generic mac and the slot is mac-arm64 or mac-x64,
\* or the slot's platform is the detected platform.
C6_Applicability ==
    phase # "unmounted" =>
        \A i \in 1..Len(cards) :
            cards[i].isApplicable <=>
                \/ os \in {"unknown", "other"}
                \/ os = "mac" /\ cards[i].slot.platform \in {"mac-arm64", "mac-x64"}
                \/ cards[i].slot.platform = os

\* C6 witness: generic mac detected: a mac-x64 card at full strength, a windows
\* card dimmed
C6_Witness ==
    /\ phase = "mounted"
    /\ os = "mac"
    /\ \E i, j \in 1..Len(cards) :
          /\ cards[i].slot.platform = "mac-x64" /\ cards[i].isApplicable
          /\ cards[j].slot.platform = "windows" /\ ~cards[j].isApplicable

\* C9: at every point of the component's life the displayed list is a
\* permutation of the six input slots, each with its label, platform and asset,
\* and the input array is left as it was handed over.
C9_SlotsReadOnly ==
    phase # "unmounted" =>
        /\ Len(Displayed) = 6
        /\ IsPermutation(Displayed, given)
        /\ slots = given

\* C9 witness: after detection the cards are displayed in another order than
\* the input, which still stands in its own
C9_Witness ==
    /\ phase = "mounted"
    /\ detection = "resolved"
    /\ os = "mac-x64"
    /\ Displayed # given
    /\ Displayed[1] = given[5]
    /\ slots = given
    /\ \E i \in 1..6 : given[i].asset # Null

\* the detected-platform state over one mount
DetectOnceInvariant ==
    /\ started <= 1
    /\ phase # "rendered" => started = 1
    /\ detection # "resolved" => os = "unknown" /\ writes = 0
    /\ (detection = "resolved" /\ mountedAtResolve) =>
          /\ os = resolvedValue
          /\ os # "unknown"
          /\ writes = 1
    /\ writes <= 1

\* C10: per mount detection is started exactly once; the state is unknown from
\* mount until detection resolves; if the component is mounted when detectOS
\* resolves, the state is set exactly once to the resolved value, eventually,
\* and is never written again nor reset to unknown; nothing is restarted.
C10_DetectOnce ==
    /\ []DetectOnceInvariant
    /\ [][detection = "resolved" => (os' = os /\ writes' = writes /\ started' = started)]_vars
    /\ (phase = "mounted") ~>
          (phase = "unmounted" \/ (detection = "resolved" /\ os = resolvedValue /\ writes = 1))

\* C10 witness: mounted, detection resolved to mac-arm64 and written once
C10_Witness ==
    /\ phase = "mounted"
    /\ detection = "resolved"
    /\ mountedAtResolve
    /\ resolvedValue = "mac-arm64"
    /\ os = "mac-arm64"
    /\ started = 1
    /\ writes = 1

\* C11: detection is cancelable: in every interleaving of mount, unmount and
\* resolution of the detection task, a result that resolves after the component
\* has unmounted is discarded: the detected-platform state is never written
\* after unmount.
C11_CanceledResultDiscarded ==
    /\ [](phase = "unmounted" => canceled)
    /\ []((detection = "resolved" /\ ~mountedAtResolve) => (os = "unknown" /\ writes = 0))
    /\ [][phase = "unmounted" => (os' = os /\ writes' = writes)]_vars

\* C11 witness: mounted, unmounted while detection was pending, and the detection
\* then resolved to a platform that was not written
C11_Witness ==
    /\ phase = "unmounted"
    /\ canceled
    /\ started = 1
    /\ detection = "resolved"
    /\ ~mountedAtResolve
    /\ resolvedValue = "mac-arm64"
    /\ os = "unknown"
    /\ writes = 0

\* C16: ranking and dimming agree: for every detected platform and every slot
\* the slot is applicable if and only if its relevance score is 0; so in every
\* displayed order every applicable (full-strength) slot stands before every
\* inapplicable (dimmed) one.
C16_RankingAgreesWithDimming ==
    phase # "unmounted" =>
        /\ \A i \in 1..Len(cards) :
              cards[i].isApplicable <=> (getRelevanceScore(cards[i].slot, os) = 0)
        /\ \A i, j \in 1..Len(cards) :
              (cards[i].isApplicable /\ ~cards[j].isApplicable) => i < j

\* C16 witness: Intel mac detected: the two Intel cards first and at full
\* strength, the four others after them and dimmed, in another order than given
C16_Witness ==
    /\ phase = "mounted"
    /\ os = "mac-x64"
    /\ Len(cards) = 6
    /\ \A i \in 1..2 : cards[i].isApplicable /\ cards[i].slot.platform = "mac-x64"
    /\ \A i \in 3..6 : ~cards[i].isApplicable
    /\ cards[3].slot.platform = "mac-arm64"
    /\ Displayed # given

\* ---- detectOS

\* the three signals of the navigator, lower-cased
StructuredPlatform ==
    IF nav.userAgentData.present /\ nav.userAgentData.platform.has
    THEN toLowerCase(nav.userAgentData.platform.v)
    ELSE <<>>

LegacyPlatform == toLowerCase(nav.platform)

UserAgent == toLowerCase(nav.userAgent)

\* the user agent identifies a Mac: it contains "mac os"
UserAgentSaysMac == includes(UserAgent, <<"m","a","c"," ","o","s">>)

\* some signal identifies the client as a Mac
SaysMac ==
    \/ includes(StructuredPlatform, S_mac)
    \/ includes(LegacyPlatform, S_mac)
    \/ UserAgentSaysMac

\* some signal identifies the client as Windows
SaysWindows ==
    \/ includes(StructuredPlatform, S_win)
    \/ includes(LegacyPlatform, S_win)
    \/ includes(UserAgent, S_windows)

\* the arm64 and x64 tokens of a lower-cased string
HasArm64Token(str) ==
    \/ includes(str, S_arm64)
    \/ includes(str, S_aarch64)
    \/ includes(str, S_apple_silicon_dash)
    \/ str = S_arm

HasX64Token(str) ==
    \/ includes(str, S_x64)
    \/ includes(str, S_x86_64)
    \/ includes(str, S_amd64)

\* detectOS has returned and the development override did not decide
DetectedFromSignals == detection = "resolved" /\ forcedOS(nav) = "none"

\* C12: whenever a detection signal (structured platform, legacy platform string
\* or user agent) identifies the client as a Mac and no architecture has been
\* resolved by any signal, detectOS yields the generic mac platform, never other
\* and never an architecture-specific mac platform. Stated for clients that no
\* signal identifies as Windows and whose user agent carries no architecture
\* token at all.
C12_MacWithoutArchitecture ==
    ( /\ DetectedFromSignals
      /\ SaysMac
      /\ ~SaysWindows
      /\ structuredArchitecture(nav) = "null"
      /\ ~HasArm64Token(UserAgent)
      /\ ~HasX64Token(UserAgent) )
    => resolvedValue = "mac"

\* C14 as stated: with no architecture from the structured API detectOS never
\* returns mac-x64, whatever the user agent contains, and for a user agent
\* identifying a Mac it returns mac-arm64 if the string contains an arm64 token
\* and mac otherwise. Stated for clients that no signal identifies as Windows.
C14_UserAgentDecidesArchitecture ==
    (DetectedFromSignals /\ structuredArchitecture(nav) = "null") =>
        /\ resolvedValue # "mac-x64"
        /\ (UserAgentSaysMac /\ ~SaysWindows) =>
              resolvedValue = IF HasArm64Token(UserAgent) THEN "mac-arm64" ELSE "mac"

\* C14: outside the development override and with no architecture from the
\* structured API, detectOS never returns mac-x64, whatever the user agent
\* contains; when the structured platform has not already answered mac and no
\* signal says Windows, a user agent identifying a Mac gives mac-arm64 if it
\* contains an arm64 token and mac otherwise.
C14_X64DisabledInUserAgent ==
    (DetectedFromSignals /\ structuredArchitecture(nav) = "null") =>
        /\ resolvedValue # "mac-x64"
        /\ (UserAgentSaysMac /\ ~SaysWindows /\ ~includes(StructuredPlatform, S_mac)) =>
              resolvedValue = IF HasArm64Token(UserAgent) THEN "mac-arm64" ELSE "mac"

\* C14 witness: a user agent of a Mac that contains x86_64, no structured API,
\* and the generic mac detected
C14_Witness ==
    /\ DetectedFromSignals
    /\ ~nav.userAgentData.present
    /\ nav.platform = V_MacIntel
    /\ UserAgentSaysMac
    /\ HasX64Token(UserAgent)
    /\ ~HasArm64Token(UserAgent)
    /\ resolvedValue = "mac"

\* ---- about page

AboutResponded == aboutPc = "responded"

\* the request got a roadmap document
RoadmapFetched ==
    LET roadmap == fetchRoadmapMarkdown(roadmapUpstream)
    IN  ~roadmap.threw /\ roadmap.value # Null

\* the parsed roadmap: its milestones in document order
ParsedRoadmap ==
    parseRoadmapMarkdown(fetchRoadmapMarkdown(roadmapUpstream).value.markdown)

\* the current stable version is known
CurrentKnown ==
    LET current == fetchCurrentStableVersion(releasesUpstream)
    IN  ~current.threw /\ current.value # Null

CurrentStable == fetchCurrentStableVersion(releasesUpstream).value

\* version a is strictly greater than version b
VersionAbove(a, b) ==
    \/ a.major > b.major
    \/ a.major = b.major /\ a.minor > b.minor
    \/ a.major = b.major /\ a.minor = b.minor /\ a.patch > b.patch

\* of the milestones parsed, those above the version current, and the lowest of them
NewerMilestones(parsed, current) ==
    {i \in 1..Len(parsed) : VersionAbove(parsed[i].version, current)}

LowestNewer(parsed, current) ==
    LET newer == NewerMilestones(parsed, current)
    IN  {i \in newer : \A j \in newer : ~VersionAbove(parsed[i].version, parsed[j].version)}

IsOpen(item) == ~item.done

\* the texts of the unchecked items of a milestone, in document order
OpenTexts(milestone) ==
    LET open == SelectSeq(milestone.items, IsOpen)
    IN  [k \in 1..Len(open) |-> open[k].text]

\* C8: when the current stable version is known and the parsed roadmap has a
\* milestone strictly above it, nextVersionHeading is the heading of a lowest
\* such milestone, wherever its heading stands in the document, and if that
\* milestone has an unchecked item, items is exactly the texts of its unchecked
\* items in document order.
C8_NextMilestone ==
    (AboutResponded /\ RoadmapFetched /\ CurrentKnown) =>
        \E parsed \in {ParsedRoadmap} : \E current \in {CurrentStable} :
            NewerMilestones(parsed, current) # {} =>
                /\ plan # Null
                /\ \E i \in LowestNewer(parsed, current) :
                      /\ plan.nextVersionHeading = parsed[i].heading
                      /\ (OpenTexts(parsed[i]) # <<>> => plan.items = OpenTexts(parsed[i]))

\* a higher milestone stands first in the document; the lowest one above the
\* current version has a checked and an unchecked item; the plan names it and
\* lists the unchecked item only
C8_Witness ==
    /\ AboutResponded /\ RoadmapFetched /\ CurrentKnown
    /\ plan # Null
    /\ \E parsed \in {ParsedRoadmap} : \E current \in {CurrentStable} :
        \E i \in LowestNewer(parsed, current) :
          /\ \E j \in NewerMilestones(parsed, current) :
                j < i /\ VersionAbove(parsed[j].version, parsed[i].version)
          /\ \E k \in 1..Len(parsed[i].items) : parsed[i].items[k].done
          /\ OpenTexts(parsed[i]) # <<>>
          /\ plan.nextVersionHeading = parsed[i].heading
          /\ plan.items = OpenTexts(parsed[i])
          /\ Len(plan.items) < Len(parsed[i].items)

====
